---- MODULE Spec2Model ----
(***************************************************************************)
(* The game-session state machine of app.py: the session dictionary        *)
(* `state`, the HTTP and socket handlers that mutate it under `lock`, the   *)
(* background timer tasks they start, and emit_state, which publishes the   *)
(* session to the realtime transport.                                       *)
(*                                                                          *)
(* Granularity.  The application runs on eventlet green threads, so a       *)
(* handler runs from its entry to its return without interruption: one      *)
(* action is the handler's critical section together with the emit_state    *)
(* call that follows it.  A timer task is one action per stretch of code    *)
(* between two time.sleep calls; between them any other action may run.     *)
(* start_background_task only queues a task: the task's first statements    *)
(* (the capture of round_id) are a step of their own.  SpecThreads drops the *)
(* first assumption: there a call can be overtaken wherever it does not      *)
(* hold `lock`, and at the socketio.emit calls.                             *)
(*                                                                          *)
(* Time.  `now` is time.time() in whole seconds.  A sleeping task may wake   *)
(* at any later step: the length of a sleep is not tied to `now`, so the    *)
(* behaviours include every real schedule, however late a timer fires.      *)
(***************************************************************************)
EXTENDS Integers, Sequences, FiniteSets, Bags, TLC

VARIABLES
    state,               \* the session dictionary (app.py `state`)
    last_emitted_state,  \* _last_emitted_state: << >> for None, else <<snapshot>>
    tasks,               \* bag of background tasks started and not yet finished
    now,                 \* time.time()
    last_op,             \* the handler or task step that ran last
    resp,                \* what that step returned to its HTTP caller
    emitted,             \* the socket events that step handed to socketio.emit
    emit_call,           \* how that step called emit_state: "none", "plain", "force"
    published,           \* payload of the last game_state event sent (history)
    accepted,            \* words scored "ok" since the last start_game (history)
    last_accept,         \* the last accepted game_trigger (history): its time, and
                         \* whether start_game has run since
    lock,                \* `lock` is held between two steps of a handler
    threads,             \* bag of handler and timer calls that are between two
                         \* of their steps (SpecThreads only)
    activated_by,        \* history: the do_countdown task (the round_id it was
                         \* started in) that made the running round active,
                         \* while no request has arrived since; else NoRound
    mutated,             \* history: the timer tasks that changed the session
                         \* in the current round_id generation
    clear_queue          \* history: for every clear_result_after_delay in
                         \* flight, oldest first, the result it was started for

vars == <<state, last_emitted_state, tasks, now, last_op, resp, emitted,
          emit_call, published, accepted, last_accept,
          lock, threads, activated_by, mutated, clear_queue>>

----------------------------------------------------------------------------
(* Configuration *)

MIN_WORD_LEN == 5

\* Fault injection: the top tier applied to every length from 8 up.
POINTS_BY_LEN_EightUp(n) ==
    CASE n = 5 -> 3 [] n = 6 -> 5 [] n = 7 -> 8 [] n >= 8 -> 13 [] OTHER -> 0

POINTS_BY_LEN(n) ==
    CASE n = 5 -> 3 [] n = 6 -> 5 [] n = 7 -> 8 [] n = 8 -> 13 [] OTHER -> 0

PAIRINGS == << <<"FESTIVAL", "PASSPORT">>, <<"PLAYTIME", "CAMPFIRE">> >>

tier_for_len(n) == IF n \in {5, 6, 7, 8} THEN ToString(n) ELSE "None"

\* The dictionary loaded from data/words.txt: lower-case lines of at least
\* MIN_WORD_LEN characters.  A sample with one word of each scoring length.
words ==
    {w \in {"apple", "banana", "cabinet", "festival", "adventure"} :
        Len(w) >= MIN_WORD_LEN}

DEBOUNCE == 2

----------------------------------------------------------------------------
(* Values *)

None == [none |-> TRUE]
NoRound == 0 - 1

InitState ==
    [pair_index      |-> 0,
     teamA           |-> [name |-> "Team A", score |-> 0],
     teamB           |-> [name |-> "Team B", score |-> 0],
     used_words      |-> {},
     current_team    |-> "A",
     phase           |-> "intro",
     last_result     |-> None,
     last_trigger_at |-> 0,
     winning_team    |-> "None",
     bonus_submitted |-> FALSE,
     round_id        |-> 0]

Op(name) ==
    [name |-> name, pc |-> "", my_round_id |-> NoRound, born |-> NoRound]
TaskOp(t) ==
    [name |-> t.fn, pc |-> t.pc, my_round_id |-> t.my_round_id, born |-> t.born]

\* A background task: its function, where it sleeps, its local my_round_id,
\* and (history) the round_id at the start_background_task call that made it.
Task(fn, pc, rid, born) ==
    [fn |-> fn, pc |-> pc, my_round_id |-> rid, born |-> born]

Other(team) == IF team = "A" THEN "B" ELSE "A"

\* socketio.start_background_task(fn): the task is queued, not yet run.
start_background_task(bag, fn, round_id) ==
    bag (+) SetToBag({Task(fn,
                           IF fn \in {"do_countdown", "do_bonus_round", "scan_watchdog"}
                           THEN "start" ELSE "sleep",
                           NoRound, round_id)})

\* Task t goes to sleep at pc, holding my_round_id = rid.
sleep(bag, t, pc, rid) ==
    (bag (-) SetToBag({t})) (+) SetToBag({Task(t.fn, pc, rid, t.born)})

finish(bag, t) == bag (-) SetToBag({t})

----------------------------------------------------------------------------
(* emit_state *)

RECURSIVE SetToList(_)
\* list(state["used_words"]): the elements of the set in its iteration order.
SetToList(S) ==
    IF S = {} THEN << >>
    ELSE LET x == CHOOSE y \in S : TRUE IN <<x>> \o SetToList(S \ {x})

\* safe_state: a copy of the session with used_words rendered as a list.
SafeState(s) == [s EXCEPT !.used_words = SetToList(@)]

\* Fault injection: the comparison made even when force is set.
MustPublish_IgnoreForce(force, safe_state) ==
    \/ last_emitted_state = << >>
    \/ last_emitted_state[1] # safe_state

\* Lines 75-77: the early return is taken unless this holds.
MustPublish(force, safe_state) ==
    \/ force
    \/ last_emitted_state = << >>
    \/ last_emitted_state[1] # safe_state

\* emit_state(force) run on session s by a step that already sent `sent`.
emit_state(force, s, sent) ==
    LET safe_state == SafeState(s) IN
    /\ emit_call' = IF force THEN "force" ELSE "plain"
    /\ IF MustPublish(force, safe_state)
       THEN /\ last_emitted_state' = <<safe_state>>
            /\ published' = <<safe_state>>
            /\ emitted' = sent \o <<"game_state", "admin_secrets">>
       ELSE /\ UNCHANGED <<last_emitted_state, published>>
            /\ emitted' = sent

\* A return that does not reach emit_state.
no_emit(sent) ==
    /\ emit_call' = "none"
    /\ UNCHANGED <<last_emitted_state, published>>
    /\ emitted' = sent

----------------------------------------------------------------------------
(* HTTP handlers *)

\* Fault injection: start_game without line 189 (used_words.clear()).
StartGameState_KeepWords(s, data) ==
    [s EXCEPT
        !.pair_index      = (@ + 1) % Len(PAIRINGS),
        !.teamA           = [name  |-> IF data.teamA # "" THEN data.teamA ELSE @.name,
                             score |-> 0],
        !.teamB           = [name  |-> IF data.teamB # "" THEN data.teamB ELSE @.name,
                             score |-> 0],
        !.current_team    = "A",
        !.phase           = "intro",
        !.last_result     = None,
        !.winning_team    = "None",
        !.bonus_submitted = FALSE,
        !.last_trigger_at = 0,
        !.round_id        = @ + 1]

\* The session after start_game's critical section (lines 183-196).
StartGameState(s, data) ==
    [s EXCEPT
        !.pair_index      = (@ + 1) % Len(PAIRINGS),
        !.teamA           = [name  |-> IF data.teamA # "" THEN data.teamA ELSE @.name,
                             score |-> 0],
        !.teamB           = [name  |-> IF data.teamB # "" THEN data.teamB ELSE @.name,
                             score |-> 0],
        !.used_words      = {},
        !.current_team    = "A",
        !.phase           = "intro",
        !.last_result     = None,
        !.winning_team    = "None",
        !.bonus_submitted = FALSE,
        !.last_trigger_at = 0,
        !.round_id        = @ + 1]

start_game(data) ==
    /\ state' = StartGameState(state, data)
    /\ emit_state(TRUE, state', << >>)
    /\ resp' = [ok |-> TRUE]
    /\ last_op' = Op("start_game")
    /\ accepted' = {}
    /\ last_accept' = [last_accept EXCEPT !.restarted = TRUE]
    /\ UNCHANGED <<tasks, now>>

\* The session after init_bonus's critical section (lines 206-219).
InitBonusState(s) ==
    LET w == IF s.teamA.score >= s.teamB.score THEN "A" ELSE "B" IN
    [s EXCEPT
        !.winning_team    = w,
        !.current_team    = w,
        !.phase           = "bonus_intro",
        !.last_result     = None,
        !.bonus_submitted = FALSE]

init_bonus ==
    /\ state' = InitBonusState(state)
    /\ emit_state(FALSE, state', << >>)
    /\ resp' = [ok |-> TRUE]
    /\ last_op' = Op("init_bonus")
    /\ UNCHANGED <<tasks, now, accepted, last_accept>>

\* Fault injection: reset_game also clearing used_words.
ResetGameState_ClearWords(s) ==
    [s EXCEPT
        !.phase           = "intro",
        !.teamA.score     = 0,
        !.teamB.score     = 0,
        !.used_words      = {},
        !.winning_team    = "None",
        !.last_result     = None,
        !.bonus_submitted = FALSE]

\* The session after reset_game's critical section (lines 226-232).
ResetGameState(s) ==
    [s EXCEPT
        !.phase           = "intro",
        !.teamA.score     = 0,
        !.teamB.score     = 0,
        !.winning_team    = "None",
        !.last_result     = None,
        !.bonus_submitted = FALSE]

reset_game ==
    /\ state' = ResetGameState(state)
    /\ emit_state(FALSE, state', << >>)
    /\ resp' = [ok |-> TRUE]
    /\ last_op' = Op("reset_game")
    /\ UNCHANGED <<tasks, now, accepted, last_accept>>

\* Line 255: the phases in which submit takes the bonus branch.
BonusSubmitPhases == {"bonus_active", "bonus_scanning", "bonus_scan_failed"}

\* Fault injection: line 275 testing n == 8 instead of n >= 8.
BonusPoints_ExactlyEight(n) ==
    IF n = 5 THEN 7
    ELSE IF n = 6 THEN 9
    ELSE IF n = 7 THEN 13
    ELSE IF n = 8 THEN 20
    ELSE 0

\* Lines 272-275.
BonusPoints(n) ==
    IF n = 5 THEN 7
    ELSE IF n = 6 THEN 9
    ELSE IF n = 7 THEN 13
    ELSE IF n >= 8 THEN 20
    ELSE 0

\* Lines 261-275: valid, reason and pts of a bonus submission.
BonusOutcome(word) ==
    LET n == Len(word) IN
    IF n < 5 THEN [valid |-> FALSE, points |-> 0, reason |-> "too_short"]
    ELSE IF word \notin words
         THEN [valid |-> FALSE, points |-> 0, reason |-> "not_in_dictionary"]
         ELSE [valid |-> TRUE, points |-> BonusPoints(n), reason |-> "BONUS_CLEARED"]

\* Lines 293-305: valid, reason and pts of a standard submission.
StandardOutcome(word, used_words) ==
    LET n == Len(word) IN
    IF n < MIN_WORD_LEN THEN [valid |-> FALSE, points |-> 0, reason |-> "too_short"]
    ELSE IF word \in used_words
         THEN [valid |-> FALSE, points |-> 0, reason |-> "duplicate"]
         ELSE IF word \notin words
              THEN [valid |-> FALSE, points |-> 0, reason |-> "not_in_dictionary"]
              ELSE [valid |-> TRUE, points |-> POINTS_BY_LEN(n), reason |-> "ok"]

\* Lines 277-278 and 303-304.
AddScore(s, team, pts) ==
    IF team = "A" THEN [s EXCEPT !.teamA.score = @ + pts]
    ELSE [s EXCEPT !.teamB.score = @ + pts]

\* The session after a bonus submission that is consumed (lines 261-288).
BonusSubmitState(s, word, t) ==
    LET o  == BonusOutcome(word)
        s1 == IF o.valid THEN AddScore(s, s.current_team, o.points) ELSE s
    IN  [s1 EXCEPT
            !.last_result     = [id |-> t, word |-> word, valid |-> o.valid,
                                 len |-> Len(word), tier |-> ToString(Len(word)),
                                 points |-> o.points, reason |-> o.reason],
            !.bonus_submitted = TRUE,
            !.phase           = "bonus_intro"]

\* The session after a standard submission (lines 293-313).
StandardSubmitState(s, word, t) ==
    LET o  == StandardOutcome(word, s.used_words)
        s1 == IF o.valid
              THEN AddScore([s EXCEPT !.used_words = @ \cup {word}],
                            s.current_team, o.points)
              ELSE s
    IN  [s1 EXCEPT
            !.last_result  = [id |-> t, word |-> word, valid |-> o.valid,
                              len |-> Len(word), tier |-> tier_for_len(Len(word)),
                              points |-> o.points, reason |-> o.reason],
            !.phase        = "idle",
            !.current_team = Other(s.current_team)]

\* submit, word being the request's word after strip() and lower().
submit(word) ==
    /\ last_op' = Op("submit")
    /\ UNCHANGED <<now, last_accept>>
    /\ IF state.phase \in BonusSubmitPhases
       THEN IF state.bonus_submitted
            THEN /\ resp' = [valid |-> FALSE, points |-> 0,
                             reason |-> "already_submitted", status |-> 400]
                 /\ no_emit(<< >>)
                 /\ UNCHANGED <<state, tasks, accepted>>
            ELSE /\ state' = BonusSubmitState(state, word, now)
                 /\ tasks' = start_background_task(tasks, "transition_to_game_over",
                                                     state.round_id)
                 /\ emit_state(FALSE, state', << >>)
                 /\ resp' = BonusOutcome(word) @@ [status |-> 200]
                 /\ UNCHANGED accepted
       ELSE /\ state' = StandardSubmitState(state, word, now)
            /\ tasks' = start_background_task(tasks, "clear_result_after_delay",
                                                state.round_id)
            /\ emit_state(FALSE, state', << >>)
            /\ resp' = StandardOutcome(word, state.used_words) @@ [status |-> 200]
            /\ accepted' = IF StandardOutcome(word, state.used_words).valid
                           THEN accepted \cup {word} ELSE accepted

----------------------------------------------------------------------------
(* Socket handlers *)

\* Fault injection: on_trigger without the round_id increment of line 345.
TriggerEffect_NoBonusBump(s) ==
    CASE s.phase = "intro" ->
            [s |-> [s EXCEPT !.phase = "idle"], task |-> "", sent |-> << >>]
      [] s.phase = "idle" ->
            [s    |-> [s EXCEPT !.phase = "countdown", !.last_result = None,
                                !.round_id = @ + 1],
             task |-> "do_countdown", sent |-> << >>]
      [] s.phase = "bonus_intro" ->
            [s    |-> [s EXCEPT !.phase = "bonus_countdown",
                                !.bonus_submitted = FALSE],
             task |-> "do_bonus_round", sent |-> << >>]
      [] s.phase \in {"active", "bonus_active"} ->
            [s    |-> [s EXCEPT !.phase = IF s.phase = "bonus_active"
                                          THEN "bonus_scanning" ELSE "scanning"],
             task |-> "scan_watchdog", sent |-> <<"snapshot">>]
      [] OTHER -> [s |-> s, task |-> "", sent |-> << >>]

\* Lines 333-352 of on_trigger, run on the session s whose last_trigger_at is
\* already updated: the new session, the task started and the event sent.
TriggerEffect(s) ==
    CASE s.phase = "intro" ->
            [s |-> [s EXCEPT !.phase = "idle"], task |-> "", sent |-> << >>]
      [] s.phase = "idle" ->
            [s    |-> [s EXCEPT !.phase = "countdown", !.last_result = None,
                                !.round_id = @ + 1],
             task |-> "do_countdown", sent |-> << >>]
      [] s.phase = "bonus_intro" ->
            [s    |-> [s EXCEPT !.phase = "bonus_countdown",
                                !.bonus_submitted = FALSE, !.round_id = @ + 1],
             task |-> "do_bonus_round", sent |-> << >>]
      [] s.phase \in {"active", "bonus_active"} ->
            [s    |-> [s EXCEPT !.phase = IF s.phase = "bonus_active"
                                          THEN "bonus_scanning" ELSE "scanning"],
             task |-> "scan_watchdog", sent |-> <<"snapshot">>]
      [] OTHER -> [s |-> s, task |-> "", sent |-> << >>]

\* Fault injection: a cooldown of one second instead of two.
Debounced_OneSecond(t, s) == t - s.last_trigger_at < DEBOUNCE - 1

\* Line 329: the debounce test that makes on_trigger return at once.
Debounced(t, s) == t - s.last_trigger_at < DEBOUNCE

on_trigger ==
    /\ last_op' = Op("game_trigger")
    /\ resp' = None
    /\ UNCHANGED <<now, accepted>>
    /\ IF Debounced(now, state)
       THEN /\ no_emit(<< >>)
            /\ UNCHANGED <<state, tasks, last_accept>>
       ELSE LET e == TriggerEffect([state EXCEPT !.last_trigger_at = now]) IN
            /\ state' = e.s
            /\ tasks' = IF e.task = "" THEN tasks
                        ELSE start_background_task(tasks, e.task, e.s.round_id)
            /\ emit_state(FALSE, state', e.sent)
            /\ last_accept' = [at |-> now, restarted |-> FALSE]

\* Lines 360-367 of on_trigger_snapshot: the new phase, or "" for no change.
SnapshotPhase(s) ==
    IF s.phase \in {"active", "countdown"} THEN "scanning"
    ELSE IF s.phase \in {"bonus_active", "bonus_countdown"} THEN "bonus_scanning"
    ELSE ""

on_trigger_snapshot ==
    /\ last_op' = Op("trigger_snapshot")
    /\ resp' = None
    /\ UNCHANGED <<now, accepted, last_accept>>
    /\ IF SnapshotPhase(state) # ""
       THEN /\ state' = [state EXCEPT !.phase = SnapshotPhase(state)]
            /\ tasks' = start_background_task(tasks, "scan_watchdog", state.round_id)
            /\ emit_state(FALSE, state', <<"snapshot">>)
       ELSE /\ UNCHANGED <<state, tasks>>
            /\ emit_state(FALSE, state, << >>)

\* Line 374: "bonus" in state["phase"].
IsBonusPhase(ph) ==
    ph \in {"bonus_intro", "bonus_countdown", "bonus_active", "bonus_scanning",
            "bonus_scan_failed"}

on_scan_timeout ==
    /\ last_op' = Op("scan_timeout")
    /\ resp' = None
    /\ state' = [state EXCEPT !.phase = IF IsBonusPhase(@) THEN "bonus_scan_failed"
                                        ELSE "scan_failed"]
    /\ emit_state(FALSE, state', << >>)
    /\ UNCHANGED <<tasks, now, accepted, last_accept>>

on_scan_complete ==
    /\ last_op' = Op("scan_complete")
    /\ resp' = None
    /\ no_emit(<< >>)
    /\ UNCHANGED <<state, tasks, now, accepted, last_accept>>

on_connect ==
    /\ last_op' = Op("connect")
    /\ resp' = None
    /\ emit_state(TRUE, state, << >>)
    /\ UNCHANGED <<state, tasks, now, accepted, last_accept>>

----------------------------------------------------------------------------
(* Timer tasks.  t is the task that runs; every step ends at a time.sleep   *)
(* or at the task's return.                                                 *)

TaskStep(t) ==
    /\ t \in BagToSet(tasks)
    /\ last_op' = TaskOp(t)
    /\ resp' = None
    /\ UNCHANGED <<now, accepted, last_accept>>

\* Lines 396-397, 425-426, 454-455: my_round_id = state["round_id"].
capture_round_id(t) ==
    /\ TaskStep(t)
    /\ t.pc = "start"
    /\ tasks' = sleep(tasks, t, "sleep1", state.round_id)
    /\ no_emit(<< >>)
    /\ UNCHANGED state

\* Line 401 and line 430.
CountdownOver(s, my_round_id, ph) ==
    s.phase = ph /\ s.round_id = my_round_id

\* do_countdown after time.sleep(3): lines 400-403.
do_countdown_3(t) ==
    /\ TaskStep(t)
    /\ t.fn = "do_countdown" /\ t.pc = "sleep1"
    /\ state' = IF CountdownOver(state, t.my_round_id, "countdown")
                THEN [state EXCEPT !.phase = "active"] ELSE state
    /\ tasks' = sleep(tasks, t, "sleep2", t.my_round_id)
    /\ emit_state(FALSE, state', << >>)

\* Fault injection: line 409 without the round_id comparison.
RoundTimedOut_NoRoundCheck(s, my_round_id) ==
    s.phase = "active"

\* Line 409.
RoundTimedOut(s, my_round_id) ==
    s.phase = "active" /\ s.round_id = my_round_id

\* do_countdown after time.sleep(30): lines 407-420.
do_countdown_30(t) ==
    /\ TaskStep(t)
    /\ t.fn = "do_countdown" /\ t.pc = "sleep2"
    /\ IF RoundTimedOut(state, t.my_round_id)
       THEN /\ state' = [state EXCEPT
                            !.phase = "idle",
                            !.last_result = [id |-> now, word |-> "", valid |-> FALSE,
                                             points |-> 0, reason |-> "TIMEOUT"],
                            !.current_team = Other(@)]
            /\ tasks' = start_background_task(finish(tasks, t),
                                              "clear_result_after_delay",
                                              state.round_id)
       ELSE /\ UNCHANGED state
            /\ tasks' = finish(tasks, t)
    /\ emit_state(FALSE, state', << >>)

\* do_bonus_round after time.sleep(3): lines 429-432.
do_bonus_round_3(t) ==
    /\ TaskStep(t)
    /\ t.fn = "do_bonus_round" /\ t.pc = "sleep1"
    /\ state' = IF CountdownOver(state, t.my_round_id, "bonus_countdown")
                THEN [state EXCEPT !.phase = "bonus_active"] ELSE state
    /\ tasks' = sleep(tasks, t, "sleep2", t.my_round_id)
    /\ emit_state(FALSE, state', << >>)

\* Line 439.
BonusTimedOut(s, my_round_id) ==
    s.phase = "bonus_active" /\ s.round_id = my_round_id /\ ~s.bonus_submitted

\* do_bonus_round after time.sleep(60): lines 437-450.
do_bonus_round_60(t) ==
    /\ TaskStep(t)
    /\ t.fn = "do_bonus_round" /\ t.pc = "sleep2"
    /\ IF BonusTimedOut(state, t.my_round_id)
       THEN /\ state' = [state EXCEPT
                            !.last_result = [id |-> now, word |-> "", valid |-> FALSE,
                                             points |-> 0, reason |-> "TIME_EXPIRED"],
                            !.bonus_submitted = TRUE,
                            !.phase = "bonus_intro"]
            /\ tasks' = start_background_task(finish(tasks, t),
                                              "transition_to_game_over",
                                              state.round_id)
       ELSE /\ UNCHANGED state
            /\ tasks' = finish(tasks, t)
    /\ emit_state(FALSE, state', << >>)

\* Lines 460-467 of scan_watchdog: the new phase, or "" for a bare return.
WatchdogPhase(s, my_round_id) ==
    IF s.round_id # my_round_id THEN ""
    ELSE IF s.phase = "scanning" THEN "scan_failed"
    ELSE IF s.phase = "bonus_scanning" THEN "bonus_scan_failed"
    ELSE ""

\* scan_watchdog after time.sleep(11): lines 458-468.
scan_watchdog_11(t) ==
    /\ TaskStep(t)
    /\ t.fn = "scan_watchdog" /\ t.pc = "sleep1"
    /\ tasks' = finish(tasks, t)
    /\ IF WatchdogPhase(state, t.my_round_id) # ""
       THEN /\ state' = [state EXCEPT !.phase = WatchdogPhase(state, t.my_round_id)]
            /\ emit_state(FALSE, state', << >>)
       ELSE /\ UNCHANGED state
            /\ no_emit(<< >>)

\* Lines 101-103: the session after clear_result_after_delay's critical section.
ClearResultState(s) ==
    IF s.phase = "idle" THEN [s EXCEPT !.last_result = None] ELSE s

\* clear_result_after_delay after time.sleep(5).
clear_result_after_delay(t) ==
    /\ TaskStep(t)
    /\ t.fn = "clear_result_after_delay" /\ t.pc = "sleep"
    /\ tasks' = finish(tasks, t)
    /\ state' = ClearResultState(state)
    /\ emit_state(FALSE, state', << >>)

\* Fault injection: the game ending only if the reveal is still on show.
GameOverState_OnlyFromReveal(s) ==
    IF s.phase = "bonus_intro" THEN [s EXCEPT !.phase = "game_over"] ELSE s

\* Lines 94-95: the session after transition_to_game_over's critical section.
GameOverState(s) == [s EXCEPT !.phase = "game_over"]

\* transition_to_game_over after time.sleep(12).
transition_to_game_over(t) ==
    /\ TaskStep(t)
    /\ t.fn = "transition_to_game_over" /\ t.pc = "sleep"
    /\ tasks' = finish(tasks, t)
    /\ state' = GameOverState(state)
    /\ emit_state(FALSE, state', << >>)

\* The clock advances by d seconds.
Tick(d) ==
    /\ now' = now + d
    /\ UNCHANGED <<state, last_emitted_state, tasks, last_op, resp, emitted,
                   emit_call, published, accepted, last_accept>>

----------------------------------------------------------------------------
(* Specifications *)

Init ==
    /\ state = InitState
    /\ last_emitted_state = << >>
    /\ tasks = EmptyBag
    /\ now = DEBOUNCE
    /\ last_op = Op("init")
    /\ resp = None
    /\ emitted = << >>
    /\ published = << >>
    /\ accepted = {}
    /\ emit_call = "none"
    /\ last_accept = [at |-> 0, restarted |-> FALSE]
    /\ lock = FALSE
    /\ threads = EmptyBag
    /\ activated_by = NoRound
    /\ mutated = {}
    /\ clear_queue = << >>

\* The step ran a whole handler or a whole stretch of a task: no call is left
\* between two of its steps, and the step is not entered in the histories.
Plain == UNCHANGED <<lock, threads, activated_by, mutated, clear_queue>>

\* The bounds of a specification: tasks in flight, round_id, scores, clock,
\* words used.
Within(max_tasks, max_round, max_score, max_ticks, max_used) ==
    /\ BagCardinality(tasks) <= max_tasks
    /\ Cardinality(state.used_words) <= max_used
    /\ state.round_id <= max_round
    /\ state.teamA.score <= max_score
    /\ state.teamB.score <= max_score
    /\ now <= DEBOUNCE + max_ticks

NoNames == [teamA |-> "", teamB |-> ""]

(* Spec: the phase machine and its timers.  Every handler that touches the  *)
(* session, every timer, one dictionary word (valid once, then a            *)
(* duplicate); the clock advances a whole debounce window at a time.        *)
MaxTasks == 2
MaxRound == 2
MaxScore == 7
MaxTicks == 2

Core == Within(MaxTasks, MaxRound, MaxScore, MaxTicks, Cardinality(words))

CoreWords == {"apple"}

Next ==
    \/ start_game(NoNames) /\ Core' /\ Plain
    \/ init_bonus /\ Core' /\ Plain
    \/ reset_game /\ Core' /\ Plain
    \/ (\E word \in CoreWords : submit(word)) /\ Core' /\ Plain
    \/ on_trigger /\ Core' /\ Plain
    \/ on_trigger_snapshot /\ Core' /\ Plain
    \/ on_scan_timeout /\ Core' /\ Plain
    \/ (\E t \in BagToSet(tasks) : capture_round_id(t)) /\ Core' /\ Plain
    \/ (\E t \in BagToSet(tasks) : do_countdown_3(t)) /\ Core' /\ Plain
    \/ (\E t \in BagToSet(tasks) : do_countdown_30(t)) /\ Core' /\ Plain
    \/ (\E t \in BagToSet(tasks) : do_bonus_round_3(t)) /\ Core' /\ Plain
    \/ (\E t \in BagToSet(tasks) : do_bonus_round_60(t)) /\ Core' /\ Plain
    \/ (\E t \in BagToSet(tasks) : scan_watchdog_11(t)) /\ Core' /\ Plain
    \/ (\E t \in BagToSet(tasks) : clear_result_after_delay(t)) /\ Core' /\ Plain
    \/ (\E t \in BagToSet(tasks) : transition_to_game_over(t)) /\ Core' /\ Plain
    \/ Tick(DEBOUNCE) /\ Core' /\ Plain

Spec == Init /\ [][Next]_vars

(* SpecDebounce: the same handlers and timers with the clock advancing one  *)
(* second at a time, so that two triggers can be 0, 1, 2 or more seconds    *)
(* apart.                                                                   *)
DebounceTasks == 2
DebounceRound == 1
DebounceTicks == 2

Fine ==
    Within(DebounceTasks, DebounceRound, MaxScore, DebounceTicks, Cardinality(words))

DebounceWords == {"apple"}

NextDebounce ==
    \/ start_game(NoNames) /\ Fine' /\ Plain
    \/ init_bonus /\ Fine' /\ Plain
    \/ reset_game /\ Fine' /\ Plain
    \/ (\E word \in DebounceWords : submit(word)) /\ Fine' /\ Plain
    \/ on_trigger /\ Fine' /\ Plain
    \/ on_trigger_snapshot /\ Fine' /\ Plain
    \/ on_scan_timeout /\ Fine' /\ Plain
    \/ (\E t \in BagToSet(tasks) : capture_round_id(t)) /\ Fine' /\ Plain
    \/ (\E t \in BagToSet(tasks) : do_countdown_3(t)) /\ Fine' /\ Plain
    \/ (\E t \in BagToSet(tasks) : do_countdown_30(t)) /\ Fine' /\ Plain
    \/ (\E t \in BagToSet(tasks) : do_bonus_round_3(t)) /\ Fine' /\ Plain
    \/ (\E t \in BagToSet(tasks) : do_bonus_round_60(t)) /\ Fine' /\ Plain
    \/ (\E t \in BagToSet(tasks) : scan_watchdog_11(t)) /\ Fine' /\ Plain
    \/ (\E t \in BagToSet(tasks) : clear_result_after_delay(t)) /\ Fine' /\ Plain
    \/ (\E t \in BagToSet(tasks) : transition_to_game_over(t)) /\ Fine' /\ Plain
    \/ Tick(1) /\ Fine' /\ Plain

SpecDebounce == Init /\ [][NextDebounce]_vars

(* SpecEmit: every caller of emit_state, among them connect and the team    *)
(* names of start_game, which only matter to what is published.             *)
EmitTasks == 2
EmitRound == 1
EmitTicks == 2

Broadcast == Within(EmitTasks, EmitRound, MaxScore, EmitTicks, Cardinality(words))

EmitWords == {"apple"}
Names == {NoNames, [teamA |-> "Reds", teamB |-> ""]}

NextEmit ==
    \/ (\E data \in Names : start_game(data)) /\ Broadcast' /\ Plain
    \/ init_bonus /\ Broadcast' /\ Plain
    \/ reset_game /\ Broadcast' /\ Plain
    \/ (\E word \in EmitWords : submit(word)) /\ Broadcast' /\ Plain
    \/ on_trigger /\ Broadcast' /\ Plain
    \/ on_trigger_snapshot /\ Broadcast' /\ Plain
    \/ on_scan_timeout /\ Broadcast' /\ Plain
    \/ on_scan_complete /\ Broadcast' /\ Plain
    \/ on_connect /\ Broadcast' /\ Plain
    \/ (\E t \in BagToSet(tasks) : capture_round_id(t)) /\ Broadcast' /\ Plain
    \/ (\E t \in BagToSet(tasks) : do_countdown_3(t)) /\ Broadcast' /\ Plain
    \/ (\E t \in BagToSet(tasks) : do_countdown_30(t)) /\ Broadcast' /\ Plain
    \/ (\E t \in BagToSet(tasks) : do_bonus_round_3(t)) /\ Broadcast' /\ Plain
    \/ (\E t \in BagToSet(tasks) : do_bonus_round_60(t)) /\ Broadcast' /\ Plain
    \/ (\E t \in BagToSet(tasks) : scan_watchdog_11(t)) /\ Broadcast' /\ Plain
    \/ (\E t \in BagToSet(tasks) : clear_result_after_delay(t)) /\ Broadcast' /\ Plain
    \/ (\E t \in BagToSet(tasks) : transition_to_game_over(t)) /\ Broadcast' /\ Plain
    \/ Tick(DEBOUNCE) /\ Broadcast' /\ Plain

SpecEmit == Init /\ [][NextEmit]_vars

(* SpecScore: submissions of words of every scoring length, in and out of   *)
(* the dictionary, in every phase; the clock stands still, so one trigger   *)
(* is accepted per behaviour.                                               *)
ScoreTasks == 2
ScoreRound == 1
ScoreMax == 20
ScoreUsed == 1

Scoring == Within(ScoreTasks, ScoreRound, ScoreMax, 0, ScoreUsed)

ScoreWords ==
    {"tree", "zzzzz", "apple", "banana", "cabinet", "festival", "adventure"}

NextScore ==
    \/ init_bonus /\ Scoring' /\ Plain
    \/ (\E word \in ScoreWords : submit(word)) /\ Scoring' /\ Plain
    \/ on_trigger /\ Scoring' /\ Plain
    \/ on_trigger_snapshot /\ Scoring' /\ Plain
    \/ on_scan_timeout /\ Scoring' /\ Plain
    \/ (\E t \in BagToSet(tasks) : capture_round_id(t)) /\ Scoring' /\ Plain
    \/ (\E t \in BagToSet(tasks) : do_countdown_3(t)) /\ Scoring' /\ Plain
    \/ (\E t \in BagToSet(tasks) : do_bonus_round_3(t)) /\ Scoring' /\ Plain
    \/ (\E t \in BagToSet(tasks) : clear_result_after_delay(t)) /\ Scoring' /\ Plain
    \/ (\E t \in BagToSet(tasks) : transition_to_game_over(t)) /\ Scoring' /\ Plain

SpecScore == Init /\ [][NextScore]_vars

(* SpecLive: the bonus flow under fair scheduling of the game-over timer:   *)
(* a transition_to_game_over task that has been started does wake up.  The  *)
(* clock stands still.                                                      *)
LiveTasks == 2
LiveRound == 2

Lively == Within(LiveTasks, LiveRound, MaxScore, 0, Cardinality(words))

LiveWords == {"apple"}

GameOverFires ==
    (\E t \in BagToSet(tasks) : transition_to_game_over(t)) /\ Lively' /\ Plain

NextLive ==
    \/ start_game(NoNames) /\ Lively' /\ Plain
    \/ init_bonus /\ Lively' /\ Plain
    \/ (\E word \in LiveWords : submit(word)) /\ Lively' /\ Plain
    \/ on_trigger /\ Lively' /\ Plain
    \/ on_scan_timeout /\ Lively' /\ Plain
    \/ (\E t \in BagToSet(tasks) : capture_round_id(t)) /\ Lively' /\ Plain
    \/ (\E t \in BagToSet(tasks) : do_countdown_3(t)) /\ Lively' /\ Plain
    \/ (\E t \in BagToSet(tasks) : do_countdown_30(t)) /\ Lively' /\ Plain
    \/ (\E t \in BagToSet(tasks) : do_bonus_round_3(t)) /\ Lively' /\ Plain
    \/ (\E t \in BagToSet(tasks) : do_bonus_round_60(t)) /\ Lively' /\ Plain
    \/ (\E t \in BagToSet(tasks) : clear_result_after_delay(t)) /\ Lively' /\ Plain
    \/ GameOverFires

SpecLive == Init /\ [][NextLive]_vars /\ WF_vars(GameOverFires)

(* SpecTimers: the handlers that start timers and every timer, with the     *)
(* histories kept: which task made the round active, which tasks changed    *)
(* the session in the current generation, and which result every            *)
(* clear_result_after_delay in flight was started for.  Every               *)
(* clear_result_after_delay sleeps the same 5 seconds, so these tasks wake   *)
(* in the order they were started.                                          *)
TimerTasks == 2
TimerRound == 2
TimerTicks == 2

Timed == Within(TimerTasks, TimerRound, MaxScore, TimerTicks, Cardinality(words))

TimerWords == {"apple"}

Requests ==
    {"start_game", "init_bonus", "reset_game", "submit", "game_trigger",
     "trigger_snapshot", "scan_timeout"}

CapturingTimers == {"do_countdown", "do_bonus_round", "scan_watchdog"}

Count(bag, fn) ==
    BagCardinality([t \in {u \in BagToSet(bag) : u.fn = fn} |-> CopiesIn(t, bag)])

\* The histories after a step of a handler or a task.
Track ==
    /\ UNCHANGED <<lock, threads>>
    /\ activated_by' =
          IF last_op'.name \in Requests THEN NoRound
          ELSE IF last_op'.name = "do_countdown" /\ last_op'.pc = "sleep1"
                  /\ state.phase = "countdown" /\ state'.phase = "active"
               THEN last_op'.born
          ELSE IF last_op'.name = "do_countdown" /\ last_op'.pc = "sleep2"
                  /\ state' # state
               THEN NoRound
          ELSE activated_by
    /\ mutated' =
          LET kept == IF state'.round_id = state.round_id THEN mutated ELSE {}
          IN  IF last_op'.name \in CapturingTimers /\ state' # state
              THEN kept \cup {[fn |-> last_op'.name, born |-> last_op'.born]}
              ELSE kept
    /\ LET woken == IF last_op'.name = "clear_result_after_delay"
                    THEN Tail(clear_queue) ELSE clear_queue
       IN  /\ last_op'.name = "clear_result_after_delay"
                => Head(clear_queue).born = last_op'.born
           /\ clear_queue' =
                 IF Count(tasks', "clear_result_after_delay") > Len(woken)
                 THEN Append(woken, [born |-> state.round_id,
                                     result |-> state'.last_result])
                 ELSE woken

NextTimers ==
    \/ init_bonus /\ Timed' /\ Track
    \/ (\E word \in TimerWords : submit(word)) /\ Timed' /\ Track
    \/ on_trigger /\ Timed' /\ Track
    \/ on_scan_timeout /\ Timed' /\ Track
    \/ (\E t \in BagToSet(tasks) : capture_round_id(t)) /\ Timed' /\ Track
    \/ (\E t \in BagToSet(tasks) : do_countdown_3(t)) /\ Timed' /\ Track
    \/ (\E t \in BagToSet(tasks) : do_countdown_30(t)) /\ Timed' /\ Track
    \/ (\E t \in BagToSet(tasks) : do_bonus_round_3(t)) /\ Timed' /\ Track
    \/ (\E t \in BagToSet(tasks) : do_bonus_round_60(t)) /\ Timed' /\ Track
    \/ (\E t \in BagToSet(tasks) : scan_watchdog_11(t)) /\ Timed' /\ Track
    \/ (\E t \in BagToSet(tasks) : clear_result_after_delay(t)) /\ Timed' /\ Track
    \/ (\E t \in BagToSet(tasks) : transition_to_game_over(t)) /\ Timed' /\ Track
    \/ Tick(DEBOUNCE) /\ Timed' /\ Plain

SpecTimers == Init /\ [][NextTimers]_vars

(* SpecThreads: handlers and timers as concurrent calls.  `lock` orders the  *)
(* critical sections, but emit_state runs after the lock is released and    *)
(* takes no lock: a call may be overtaken between its statements by another  *)
(* call.  A call in flight is a record of `threads`: the handler or task it  *)
(* runs, the statement it is about to execute, whether it holds the lock,    *)
(* and the locals force and safe_state of its emit_state call.               *)
(*   pc "snapshot": at socketio.emit("snapshot"), lines 351, 362, 366        *)
(*   pc "copy":     at line 69, entering emit_state                          *)
(*   pc "compare":  at line 75, safe_state built                             *)
(*   pc "send":     at line 82, _last_emitted_state stored                   *)
ThreadMax == 2
ThreadTasks == 2
ThreadRound == 1
ThreadTicks == 2

Threaded ==
    /\ Within(ThreadTasks, ThreadRound, MaxScore, ThreadTicks, Cardinality(words))
    /\ BagCardinality(threads) <= ThreadMax

\* A call that has left its critical section and is about to run emit_state.
Emitter(op, force) ==
    [op |-> op, pc |-> "copy", holds |-> FALSE, force |-> force, snap |-> None]

\* A call inside its critical section, about to emit "snapshot".
Holder(op) ==
    [op |-> op, pc |-> "snapshot", holds |-> TRUE, force |-> FALSE, snap |-> None]

\* Line 69: state.copy() is shallow, so safe_state["teamA"] and ["teamB"] are
\* the session's own dictionaries and show its scores and names as they are
\* when safe_state is read.
Live(safe_state, s) == [safe_state EXCEPT !.teamA = s.teamA, !.teamB = s.teamB]

ThreadStep(name, pc) ==
    /\ last_op' = [Op(name) EXCEPT !.pc = pc]
    /\ resp' = None
    /\ UNCHANGED <<now, accepted, activated_by, mutated, clear_queue>>

\* with lock: (lines 206-219), up to the call of emit_state.
init_bonus_locked ==
    /\ ~lock
    /\ ThreadStep("init_bonus", "lock")
    /\ state' = InitBonusState(state)
    /\ threads' = threads (+) SetToBag({Emitter("init_bonus", FALSE)})
    /\ no_emit(<< >>)
    /\ UNCHANGED <<lock, tasks, last_accept>>

\* on_trigger from line 326 to line 350 (the lock kept, socketio.emit next)
\* or to the end of the with block (lines 333-346).
on_trigger_locked ==
    /\ ~lock
    /\ ThreadStep("game_trigger", "lock")
    /\ no_emit(<< >>)
    /\ IF Debounced(now, state)
       THEN UNCHANGED <<state, tasks, lock, threads, last_accept>>
       ELSE LET e == TriggerEffect([state EXCEPT !.last_trigger_at = now]) IN
            /\ state' = e.s
            /\ last_accept' = [at |-> now, restarted |-> FALSE]
            /\ IF e.sent # << >>
               THEN /\ lock' = TRUE
                    /\ threads' = threads (+) SetToBag({Holder("game_trigger")})
                    /\ UNCHANGED tasks
               ELSE /\ tasks' = IF e.task = "" THEN tasks
                                ELSE start_background_task(tasks, e.task, e.s.round_id)
                    /\ threads' = threads (+) SetToBag({Emitter("game_trigger", FALSE)})
                    /\ UNCHANGED lock

\* on_trigger_snapshot from line 359 to line 361 or 365 (the lock kept,
\* socketio.emit next), or through the with block when no branch is taken.
on_trigger_snapshot_locked ==
    /\ ~lock
    /\ ThreadStep("trigger_snapshot", "lock")
    /\ no_emit(<< >>)
    /\ UNCHANGED <<tasks, last_accept>>
    /\ IF SnapshotPhase(state) # ""
       THEN /\ state' = [state EXCEPT !.phase = SnapshotPhase(state)]
            /\ lock' = TRUE
            /\ threads' = threads (+) SetToBag({Holder("trigger_snapshot")})
       ELSE /\ threads' = threads (+) SetToBag({Emitter("trigger_snapshot", FALSE)})
            /\ UNCHANGED <<state, lock>>

\* Lines 351-352, 362-363, 366-367 and the end of the with block.
emit_snapshot(th) ==
    /\ th \in BagToSet(threads) /\ th.pc = "snapshot"
    /\ ThreadStep(th.op, "snapshot")
    /\ no_emit(<<"snapshot">>)
    /\ tasks' = start_background_task(tasks, "scan_watchdog", state.round_id)
    /\ lock' = FALSE
    /\ threads' = (threads (-) SetToBag({th})) (+) SetToBag({Emitter(th.op, FALSE)})
    /\ UNCHANGED <<state, last_accept>>

\* Lines 69-70 of emit_state.
emit_state_copy(th) ==
    /\ th \in BagToSet(threads) /\ th.pc = "copy"
    /\ ThreadStep(th.op, "copy")
    /\ threads' = (threads (-) SetToBag({th}))
                     (+) SetToBag({[th EXCEPT !.pc = "compare",
                                              !.snap = SafeState(state)]})
    /\ emit_call' = IF th.force THEN "force" ELSE "plain"
    /\ emitted' = << >>
    /\ UNCHANGED <<state, lock, tasks, last_accept, last_emitted_state, published>>

\* Lines 75-80 of emit_state.
emit_state_compare(th) ==
    /\ th \in BagToSet(threads) /\ th.pc = "compare"
    /\ ThreadStep(th.op, "compare")
    /\ emit_call' = "none"
    /\ emitted' = << >>
    /\ UNCHANGED <<state, lock, tasks, last_accept, published>>
    /\ LET safe_state == Live(th.snap, state) IN
       IF MustPublish(th.force, safe_state)
       THEN /\ last_emitted_state' = <<safe_state>>
            /\ threads' = (threads (-) SetToBag({th}))
                             (+) SetToBag({[th EXCEPT !.pc = "send"]})
       ELSE /\ threads' = threads (-) SetToBag({th})
            /\ UNCHANGED last_emitted_state

\* Lines 82-88 of emit_state.
emit_state_send(th) ==
    /\ th \in BagToSet(threads) /\ th.pc = "send"
    /\ ThreadStep(th.op, "send")
    /\ emit_call' = "none"
    /\ published' = <<Live(th.snap, state)>>
    /\ emitted' = <<"game_state", "admin_secrets">>
    /\ threads' = threads (-) SetToBag({th})
    /\ UNCHANGED <<state, lock, tasks, last_accept, last_emitted_state>>

\* with lock: my_round_id = state["round_id"], the task's first statement.
capture_round_id_locked(t) ==
    /\ ~lock
    /\ capture_round_id(t)
    /\ Plain

\* do_bonus_round after time.sleep(3): lines 429-431, up to emit_state.
do_bonus_round_3_locked(t) ==
    /\ ~lock
    /\ TaskStep(t)
    /\ t.fn = "do_bonus_round" /\ t.pc = "sleep1"
    /\ state' = IF CountdownOver(state, t.my_round_id, "bonus_countdown")
                THEN [state EXCEPT !.phase = "bonus_active"] ELSE state
    /\ tasks' = sleep(tasks, t, "sleep2", t.my_round_id)
    /\ threads' = threads (+) SetToBag({Emitter("do_bonus_round", FALSE)})
    /\ no_emit(<< >>)
    /\ UNCHANGED <<lock, activated_by, mutated, clear_queue>>

\* scan_watchdog after time.sleep(11): lines 458-467, up to emit_state or to
\* one of the two bare returns.
scan_watchdog_11_locked(t) ==
    /\ ~lock
    /\ TaskStep(t)
    /\ t.fn = "scan_watchdog" /\ t.pc = "sleep1"
    /\ tasks' = finish(tasks, t)
    /\ no_emit(<< >>)
    /\ UNCHANGED <<lock, activated_by, mutated, clear_queue>>
    /\ IF WatchdogPhase(state, t.my_round_id) # ""
       THEN /\ state' = [state EXCEPT !.phase = WatchdogPhase(state, t.my_round_id)]
            /\ threads' = threads (+) SetToBag({Emitter("scan_watchdog", FALSE)})
       ELSE UNCHANGED <<state, threads>>

NextThreads ==
    \/ init_bonus_locked /\ Threaded'
    \/ on_trigger_locked /\ Threaded'
    \/ on_trigger_snapshot_locked /\ Threaded'
    \/ (\E th \in BagToSet(threads) : emit_snapshot(th)) /\ Threaded'
    \/ (\E th \in BagToSet(threads) : emit_state_copy(th)) /\ Threaded'
    \/ (\E th \in BagToSet(threads) : emit_state_compare(th)) /\ Threaded'
    \/ (\E th \in BagToSet(threads) : emit_state_send(th)) /\ Threaded'
    \/ (\E t \in BagToSet(tasks) : capture_round_id_locked(t)) /\ Threaded'
    \/ (\E t \in BagToSet(tasks) : do_bonus_round_3_locked(t)) /\ Threaded'
    \/ (\E t \in BagToSet(tasks) : scan_watchdog_11_locked(t)) /\ Threaded'
    \/ Tick(DEBOUNCE) /\ Plain /\ Threaded'

SpecThreads == Init /\ [][NextThreads]_vars

----------------------------------------------------------------------------
(* Properties *)

\* The step is a step of the program (a handler or a task), not of the clock.
ProgramStep == now' = now

TimerFns == {"do_countdown", "do_bonus_round", "scan_watchdog",
             "clear_result_after_delay", "transition_to_game_over"}

\* The step is a wake-up of a task that holds a captured my_round_id.
CapturedWake ==
    /\ ProgramStep
    /\ last_op'.name \in {"do_countdown", "do_bonus_round", "scan_watchdog"}
    /\ last_op'.pc # "start"

HasTask(fn) == \E t \in BagToSet(tasks) : t.fn = fn

\* The three steps that start a new round_id generation.
StartsGeneration ==
    /\ ProgramStep
    /\ \/ last_op'.name = "start_game"
       \/ /\ last_op'.name = "game_trigger"
          /\ \/ state.phase = "idle" /\ state'.phase = "countdown"
             \/ state.phase = "bonus_intro" /\ state'.phase = "bonus_countdown"

\* C1: round_id never decreases; it grows by exactly 1 in start_game, in an
\* accepted game_trigger from idle to countdown and in an accepted
\* game_trigger from bonus_intro to bonus_countdown, and every other step
\* (handler, timer or clock) leaves it unchanged.
C1_RoundIdSteps ==
    [][IF StartsGeneration
       THEN state'.round_id = state.round_id + 1
       ELSE state'.round_id = state.round_id]_vars

\* C1 witness: a trigger has opened the second generation from bonus_intro.
C1_Witness ==
    /\ last_op.name = "game_trigger"
    /\ state.phase = "bonus_countdown"
    /\ state.round_id = 2

\* C2: a wake-up of do_countdown, do_bonus_round or scan_watchdog whose
\* captured my_round_id differs from the current round_id changes neither the
\* phase, nor a team's score, nor last_result.
C2_StaleWakeInert ==
    [][(CapturedWake /\ last_op'.my_round_id # state.round_id)
       => /\ state'.phase = state.phase
          /\ state'.teamA.score = state.teamA.score
          /\ state'.teamB.score = state.teamB.score
          /\ state'.last_result = state.last_result]_vars

\* C2 witness: the round timer of an earlier generation woke up while a later
\* round was active, and the round is still active.
C2_Witness ==
    /\ last_op.name = "do_countdown"
    /\ last_op.pc = "sleep2"
    /\ last_op.my_round_id # state.round_id
    /\ state.phase = "active"

\* C3 (as claimed): a task of any kind started before the latest round_id
\* increment changes no session field when it runs.
C3_OldTasksInert ==
    [][(ProgramStep /\ last_op'.name \in TimerFns /\ last_op'.born < state.round_id)
       => state' = state]_vars

\* C4: the state right after start_game has both scores 0, no used words and
\* phase intro.
C4_StartGameResets ==
    last_op.name = "start_game"
        => /\ state.teamA.score = 0
           /\ state.teamB.score = 0
           /\ state.used_words = {}
           /\ state.phase = "intro"

\* C4 witness: start_game ran on a game in progress (a result-clear timer of
\* an earlier submission is still in flight, a round had begun).
C4_Witness ==
    /\ last_op.name = "start_game"
    /\ state.round_id = 2
    /\ HasTask("clear_result_after_delay")
    /\ state.phase = "intro"
    /\ state.used_words = {}

SubmitStep == ProgramStep /\ last_op'.name = "submit"

ScoresUnchanged ==
    /\ state'.teamA.score = state.teamA.score
    /\ state'.teamB.score = state.teamB.score

BonusFlowPhases ==
    {"bonus_intro", "bonus_countdown", "bonus_active", "bonus_scanning",
     "bonus_scan_failed"}

\* C5 (as claimed): with bonus_submitted true and the phase any bonus-flow
\* phase, submit answers already_submitted, valid false, and leaves both
\* scores unchanged.
C5_SecondBonusSubmitRefused ==
    [][(SubmitStep /\ state.bonus_submitted /\ state.phase \in BonusFlowPhases)
       => /\ resp'.reason = "already_submitted"
          /\ resp'.valid = FALSE
          /\ ScoresUnchanged]_vars

\* The step is a submit handled by the standard-round logic (submit always
\* records a result there, so last_result' holds the submitted word).
StandardSubmitStep ==
    /\ SubmitStep
    /\ resp'.reason \in {"too_short", "duplicate", "not_in_dictionary", "ok"}
    /\ state'.phase = "idle"

\* C6: once a word has been scored "ok" by the standard-round logic, every
\* later standard-round submit of it before the next start_game answers
\* duplicate, valid false, and leaves both scores unchanged, whatever ran in
\* between.
C6_DuplicateRefused ==
    [][(StandardSubmitStep /\ state'.last_result.word \in accepted)
       => /\ resp'.reason = "duplicate"
          /\ resp'.valid = FALSE
          /\ ScoresUnchanged]_vars

\* C6 witness: a duplicate was refused after reset_game had zeroed the score
\* the word had earned.
C6_Witness ==
    /\ last_op.name = "submit"
    /\ resp.reason = "duplicate"
    /\ state.last_result.word = "apple"
    /\ "apple" \in accepted
    /\ state.teamA.score = 0
    /\ state.teamB.score = 0

TriggerStep == ProgramStep /\ last_op'.name = "game_trigger"

\* The trigger arrives less than 2 seconds after the last accepted one.
SoonAfterAccepted == last_accept.at > 0 /\ now - last_accept.at < 2

\* The step changes no session field and starts no task.
NoOp == state' = state /\ tasks' = tasks /\ emitted' = << >>

\* C7 (as claimed): a game_trigger less than 2 seconds after an accepted one
\* is a no-op, whatever ran in between.
C7_SecondTriggerNoOp ==
    [][(TriggerStep /\ SoonAfterAccepted) => NoOp]_vars

\* C7 (amended): a game_trigger less than 2 seconds after an accepted one is a
\* no-op unless start_game ran in between.
C7_SecondTriggerNoOpUnlessRestarted ==
    [][(TriggerStep /\ SoonAfterAccepted /\ ~last_accept.restarted) => NoOp]_vars

\* C7 witness: a trigger was dropped one second after the accepted trigger
\* that opened round 1, a submission in between having brought the phase back
\* to idle while the round's timer is still in flight.
C7_Witness ==
    /\ last_op.name = "game_trigger"
    /\ emit_call = "none"
    /\ now - last_accept.at = 1
    /\ ~last_accept.restarted
    /\ state.phase = "idle"
    /\ state.round_id = 1
    /\ state.last_result # None
    /\ HasTask("do_countdown")

\* The step handed a game_state event, carrying the current snapshot, to the
\* transport.
Publishes ==
    /\ \E i \in 1..Len(emitted') : emitted'[i] = "game_state"
    /\ published' = <<SafeState(state')>>

\* The snapshot of the session after the step differs in value from the last
\* one published, or none was published yet.
SnapshotChanged == published = << >> \/ published[1] # SafeState(state')

\* C8: a non-forced emit_state publishes game_state if and only if the
\* snapshot differs in value from the last published one (or none was
\* published yet), so a second call with no mutation in between publishes
\* nothing; emit_state(force=True) always publishes.
C8_EmitIdempotent ==
    [][ProgramStep =>
         /\ emit_call' = "plain" => (Publishes <=> SnapshotChanged)
         /\ emit_call' = "force" => Publishes
         /\ emit_call' = "none"  => ~Publishes /\ published' = published]_vars

\* C8 witness: a handler that changed nothing (trigger_snapshot outside a
\* round) called emit_state after an earlier publication and nothing was sent.
C8_Witness ==
    /\ last_op.name = "trigger_snapshot"
    /\ emit_call = "plain"
    /\ emitted = << >>
    /\ published # << >>
    /\ published[1].teamA.score > 0

\* C8 second witness state: a connect republished an unchanged session.
C8_ForcedWitness ==
    /\ last_op.name = "connect"
    /\ emit_call = "force"
    /\ emitted = <<"game_state", "admin_secrets">>

Score(s, team) == IF team = "A" THEN s.teamA.score ELSE s.teamB.score

NonBonusPhases ==
    {"intro", "idle", "countdown", "active", "scanning", "scan_failed", "game_over"}

\* The reference outcome of a standard-round submission.
RefStandardReason(word, used) ==
    IF Len(word) < 5 THEN "too_short"
    ELSE IF word \in used THEN "duplicate"
    ELSE IF word \notin words THEN "not_in_dictionary"
    ELSE "ok"

RefStandardPoints(n) ==
    IF n = 5 THEN 3 ELSE IF n = 6 THEN 5 ELSE IF n = 7 THEN 8 ELSE IF n = 8 THEN 13 ELSE 0

\* C9: in a non-bonus phase submit answers the first reason that applies of
\* too_short, duplicate, not_in_dictionary, ok; valid iff ok; points 3, 5, 8, 13
\* for lengths 5, 6, 7, 8 and 0 for any other valid length; exactly those
\* points are added to the team that was current and the other team's score
\* is unchanged.
C9_StandardOutcome ==
    [][(SubmitStep /\ state.phase \in NonBonusPhases) =>
         LET word   == state'.last_result.word
             reason == RefStandardReason(word, state.used_words)
             points == IF reason = "ok" THEN RefStandardPoints(Len(word)) ELSE 0
             team   == state.current_team
         IN  /\ resp'.reason = reason
             /\ resp'.valid = (reason = "ok")
             /\ resp'.points = points
             /\ Score(state', team) = Score(state, team) + points
             /\ Score(state', Other(team)) = Score(state, Other(team))]_vars

\* C9 witness: team B, second to play, scored the 13 points of an 8-letter
\* word.
C9_Witness ==
    /\ last_op.name = "submit"
    /\ resp.reason = "ok"
    /\ resp.points = 13
    /\ Len(state.last_result.word) = 8
    /\ state.teamB.score = 13
    /\ state.teamA.score = 0

RefBonusPoints(n) ==
    IF n = 5 THEN 7 ELSE IF n = 6 THEN 9 ELSE IF n = 7 THEN 13 ELSE 20

\* The phases in which a bonus round is taking submissions.
BonusRoundPhases == {"bonus_active", "bonus_scanning", "bonus_scan_failed"}

C10_LongWordWitness ==
    /\ last_op.name = "submit"
    /\ resp.points = 20
    /\ Len(state.last_result.word) = 9

\* The last step was a submit that the bonus branch consumed: it is the only
\* way submit leaves the phase at bonus_intro.
BonusConsumed ==
    /\ last_op.name = "submit"
    /\ state.phase = "bonus_intro"
    /\ state.bonus_submitted

C12_QuietRoundTimesOut ==
    [][(ProgramStep /\ last_op'.name = "do_countdown" /\ last_op'.pc = "sleep2"
        /\ activated_by # NoRound /\ last_op'.born = activated_by)
       => /\ state'.phase = "idle"
          /\ state'.last_result # None
          /\ state'.last_result.reason = "TIMEOUT"
          /\ state'.last_result.valid = FALSE
          /\ state'.last_result.points = 0
          /\ state'.current_team = Other(state.current_team)
          /\ ScoresUnchanged
          /\ Count(tasks', "clear_result_after_delay")
               = Count(tasks, "clear_result_after_delay") + 1]_vars

\* C13: every step that changes the phase to game_over starts from phase
\* bonus_intro.
C13_GameOverOnlyFromBonusIntro ==
    [][(state'.phase = "game_over" /\ state.phase # "game_over")
       => state.phase = "bonus_intro"]_vars

\* C14: a submit in any bonus-flow phase with bonus_submitted false is handled
\* as the bonus round's one submission: it records the result, sets
\* bonus_submitted, starts the game-over timer and leaves the phase at
\* bonus_intro.
C14_AnyBonusPhaseSubmitConsumed ==
    [][(SubmitStep /\ state.phase \in BonusFlowPhases /\ ~state.bonus_submitted)
       => /\ state'.last_result # None
          /\ state'.bonus_submitted
          /\ tasks' = start_background_task(tasks, "transition_to_game_over",
                                              state.round_id)
          /\ state'.phase = "bonus_intro"]_vars

\* C15: used_words loses an element only in start_game, and no step adds a
\* word to it while the phase is in the bonus flow.
C15_UsedWordsGrowOutsideBonus ==
    [][/\ ~(state.used_words \subseteq state'.used_words)
            => last_op'.name = "start_game"
       /\ state.phase \in BonusFlowPhases
            => state'.used_words \subseteq state.used_words]_vars

\* The step is a game_trigger or a trigger_snapshot.
CaptureRequestStep ==
    ProgramStep /\ last_op'.name \in {"game_trigger", "trigger_snapshot"}

\* C18: scanning is entered only from active and bonus_scanning only from
\* bonus_active, by game_trigger and by trigger_snapshot alike; in every other
\* phase both events leave the phase outside scanning and bonus_scanning and
\* start no scan_watchdog.
C18_ScanningOnlyFromActive ==
    [][/\ (state'.phase = "scanning" /\ state.phase # "scanning")
            => state.phase = "active"
       /\ (state'.phase = "bonus_scanning" /\ state.phase # "bonus_scanning")
            => state.phase = "bonus_active"
       /\ (CaptureRequestStep
           /\ state.phase \notin {"active", "bonus_active", "scanning", "bonus_scanning"})
            => /\ state'.phase \notin {"scanning", "bonus_scanning"}
               /\ Count(tasks', "scan_watchdog") = Count(tasks, "scan_watchdog")]_vars

\* C16: in one round_id generation at most one task of each timer kind that
\* checks round_id changes the session: two tasks of the same kind (started
\* in different generations) never both pass the check for the same one.
C16_OneMutatorPerGeneration ==
    \A a, b \in mutated : a.fn = b.fn => a.born = b.born

\* C19: a clear_result_after_delay task sets last_result to None only if
\* last_result is still the result it was started for; it never clears the
\* result of a later submission or timeout.
C19_ClearsOnlyOwnResult ==
    [][(ProgramStep /\ last_op'.name = "clear_result_after_delay"
        /\ state.last_result # None /\ state'.last_result = None)
       => state.last_result = Head(clear_queue).result]_vars

\* C17: no call hands a message to the realtime transport (snapshot,
\* game_state, admin_secrets) while it holds the session lock.
C17_NoEmitUnderLock ==
    \A th \in BagToSet(threads) : th.pc \in {"snapshot", "send"} => ~th.holds

\* C20: whenever no call is between its mutation and the end of its
\* emit_state, the game_state snapshot published last is the current session.
C20_QuiescentPublication ==
    (threads = EmptyBag /\ published # << >>) => published[1] = SafeState(state)

====
